---- MODULE Spec2Model ----
(***************************************************************************)
(* The click / mech / thock sound generators of the notifier plugin:       *)
(*   src/scripts/generate-sounds.py              generate_keyboard_click   *)
(*   src/scripts/add-mechanical-sound.py         generate_mechanical_...   *)
(*   src/plugins/notifier/scripts/add-thock-sounds.py  generate_thock_...  *)
(*                                                                         *)
(* Numbers.  Times are whole microseconds (every duration of the source is *)
(* one).  Amplitudes of the mixed buffer are integers in units of          *)
(* 1/AmpScale; the normalize and volume passes are exact rational          *)
(* arithmetic over one common denominator (field den), so a sample's value *)
(* is samples[i]/den.  Python's float rounding (2^-53 relative) is not     *)
(* modelled.  sin and exp are fixed-point approximations.  The sample rate *)
(* is scaled down from 44100 so that a buffer has tens of samples; the     *)
(* products duration * rate stay non-integral, as in the source.           *)
(***************************************************************************)
EXTENDS Integers, Sequences, FiniteSets

\* ------------------------------------------------------------------ bounds
\* samples per second (44100 in the source)
SampleRate == 340
\* amplitude resolution: 1.0 is AmpScale
AmpScale == 100
\* resolution of random.random(): the values are r/RandRes, r in 0..RandRes-1
RandRes == 4
\* largest num_clicks a request is made with
MaxClicks == 2
\* calls of the generator one process makes
MaxCalls == 2
\* longest buffer handed directly to the encode passes
MaxBufLen == 3

\* ---------------------------------------------------------------- numerics
\* int(n/d) for d > 0: Python's int() truncates toward zero
Trunc(n, d) == IF n >= 0 THEN n \div d ELSE -((-n) \div d)

\* round(n/d) for d > 0, to the nearest integer, halves away from zero
Round(n, d) == IF n >= 0 THEN (2 * n + d) \div (2 * d) ELSE -((2 * (-n) + d) \div (2 * d))

Abs(x) == IF x < 0 THEN -x ELSE x

\* int(seconds * sample_rate), the time in microseconds
\* a count that rounds the product up instead of cutting it
ToSamplesCeil(us) == -((-(us * SampleRate)) \div 1000000)

ToSamples(us) == Trunc(us * SampleRate, 1000000)

\* [0.0] * n: the empty list when n <= 0
Zeros(n) == [i \in 1..n |-> 0]

SeqSum(s) ==
    LET sum[k \in 0..Len(s)] == IF k = 0 THEN 0 ELSE s[k] + sum[k - 1]
    IN  sum[Len(s)]

\* max(abs(s) for s in samples); of the empty list Python raises ValueError
MaxAbs(s) ==
    IF s = <<>> THEN 0
    ELSE CHOOSE m \in {Abs(s[i]) : i \in 1..Len(s)} :
            \A i \in 1..Len(s) : Abs(s[i]) <= m

\* math.sin(2 * math.pi * freq * mult * t) at t = i / sample_rate, in 1/AmpScale.
\* freq in Hz, mult10 the harmonic multiplier in tenths.  The phase is cut to
\* 2*AmpScale steps a cycle; each half cycle is Bhaskara's approximation
\* 16 h (H - h) / (5 H^2 - 4 h (H - h)).
SinQ(freq, mult10, i) ==
    LET cyc == SampleRate * 10
        p   == (((freq * mult10 * i) % cyc) * 2 * AmpScale) \div cyc
        h   == p % AmpScale
        v   == (AmpScale * 16 * h * (AmpScale - h))
                 \div (5 * AmpScale * AmpScale - 4 * h * (AmpScale - h))
    IN IF p < AmpScale THEN v ELSE -v

\* math.exp(-t * decay) at t = i / sample_rate, in 1/AmpScale:
\* 1 / (1 + x + x^2/2 + x^3/6) with x in tenths
ExpQ(decay, i) ==
    LET x == (decay * i * 10) \div SampleRate
    IN (AmpScale * 6000) \div (6000 + 600 * x + 30 * x * x + x * x * x)

\* ------------------------------------------------------------ random module
\* The state of Python's module-level generator (one per process) is one
\* integer; the Mersenne Twister is modelled by a full-period congruential
\* generator.
\* random.seed(k)
RandSeed(k) == (k * 37 + 11) % 1024

\* the state after one random.random()
RandNext(x) == (x * 205 + 3) % 1024

\* the value r of that random.random(), as r/RandRes in [0, 1)
RandValue(x) == (RandNext(x) * RandRes) \div 1024

\* states the generator can have at import, before any random.seed()
EntropyStates == {7, 500}

\* ------------------------------------------------------------------ presets
Singles == {"thock", "mech"}
Multis == {"thocks", "mechs"}

\* Oscillator components: start and dur in microseconds, freq in Hz, decay the
\* envelope rate, harm the harmonics <<multiplier in tenths, weight in
\* tenths>>, gain in hundredths.
ThockPreset ==
    [duration |-> 80000, gap |-> 45000, gapJitter |-> 20000, freqJitter |-> 80,
     seedSingle |-> 45, seedMulti |-> 46,
     osc |-> << [start |-> 0, dur |-> 6000, freq |-> 4000, decay |-> 200,
                 harm |-> << <<10, 10>>, <<20, 3>> >>, gain |-> 30],
                [start |-> 3000, dur |-> 12000, freq |-> 1800, decay |-> 90,
                 harm |-> << <<10, 10>>, <<15, 3>> >>, gain |-> 40],
                [start |-> 4000, dur |-> 50000, freq |-> 350, decay |-> 35,
                 harm |-> << <<10, 10>>, <<20, 5>>, <<30, 3>> >>, gain |-> 90] >>,
     noise |-> [start |-> 0, dur |-> 8000, decay |-> 170, gain |-> 8]]

MechPreset ==
    [duration |-> 60000, gap |-> 40000, gapJitter |-> 20000, freqJitter |-> 80,
     seedSingle |-> 42, seedMulti |-> 44,
     osc |-> << [start |-> 0, dur |-> 8000, freq |-> 4500, decay |-> 180,
                 harm |-> << <<10, 10>>, <<20, 5>>, <<30, 3>> >>, gain |-> 60],
                [start |-> 3000, dur |-> 15000, freq |-> 2000, decay |-> 100,
                 harm |-> << <<10, 10>>, <<15, 4>> >>, gain |-> 50],
                [start |-> 5000, dur |-> 30000, freq |-> 400, decay |-> 50,
                 harm |-> << <<10, 10>>, <<20, 3>> >>, gain |-> 40] >>,
     noise |-> [start |-> 0, dur |-> 12000, decay |-> 150, gain |-> 15]]

\* generate_keyboard_click: one window a click, three sines and noise
ClickPreset ==
    [duration |-> 25000, gap |-> 35000, freqJitter |-> 100,
     freqs |-> <<3000, 4500, 6000>>, noisePct |-> 15]

Preset(gen) == IF gen \in {"thock", "thocks"} THEN ThockPreset
               ELSE IF gen \in {"mech", "mechs"} THEN MechPreset
               ELSE ClickPreset

\* the seeds main() of generate-sounds.py sets before its two calls
MainSeeds == {42, 43}

\* ---------------------------------------------------------------- synthesis
\* freq * freq_variation, freq_variation in thousandths
EffFreq(freq, fv) == Trunc(freq * fv, 1000)

\* 1.0 + (random.random() - 0.5) * jitter, in thousandths
FreqVariation(r, jitter) == 1000 + Trunc((2 * r - RandRes) * jitter, 2 * RandRes)

\* gap_duration + (random.random() - 0.5) * 0.02, in microseconds
GapVariation(r, P) == P.gap + Trunc((2 * r - RandRes) * P.gapJitter, 2 * RandRes)

\* One oscillator sample at local index i: the weighted harmonics, times the
\* envelope, times the component's gain.
OscValue(o, fv, i) ==
    LET sines == SeqSum([k \in 1..Len(o.harm) |->
                     o.harm[k][2] * SinQ(EffFreq(o.freq, fv), o.harm[k][1], i)])
    IN Trunc(sines * ExpQ(o.decay, i) * o.gain, 10 * AmpScale * 100)

\* noise * envelope * gain, noise = (random.random() - 0.5) * 2.0
NoiseValue(nz, r, i) ==
    Trunc((2 * r - RandRes) * ExpQ(nz.decay, i) * nz.gain, RandRes * 100)

\* One sample of generate_keyboard_click at local index i of a click of cs
\* samples: the three sines and the noise, each times volume, divided by the
\* four components, then the attack (first 10%) and the decay (after 30%).
KeyValue(vol, fv, r, i, cs) ==
    LET P     == ClickPreset
        sines == SeqSum([k \in 1..Len(P.freqs) |-> SinQ(EffFreq(P.freqs[k], fv), 10, i)])
        mixed == Trunc(vol * (sines * 200 * RandRes
                              + (2 * r - RandRes) * P.noisePct * AmpScale),
                       100 * 200 * RandRes * (Len(P.freqs) + 1))
        att   == IF 10 * i < cs THEN Trunc(mixed * 100 * i * i, cs * cs) ELSE mixed
    IN IF 10 * i > 3 * cs
       THEN Trunc(att * (49 * cs * cs - (10 * i - 3 * cs) * (10 * i - 3 * cs)), 49 * cs * cs)
       ELSE att

\* the place in the list that the Python index idx names
Target(samples, idx) == IF idx < 0 THEN Len(samples) + idx + 1 ELSE idx + 1

\* a mix that stores the contribution instead of adding it
MixOneReplacing(samples, idx, val) == [samples EXCEPT ![Target(samples, idx)] = val]

\* samples[idx] += val
MixOne(samples, idx, val) == [samples EXCEPT ![Target(samples, idx)] = @ + val]

RECURSIVE MixAll(_, _)
MixAll(samples, contribs) ==
    IF contribs = <<>> THEN samples
    ELSE MixAll(MixOne(samples, Head(contribs).idx, Head(contribs).val), Tail(contribs))

\* The contributions of a loop, mixed in one after the other.  A mix changes
\* one place only, so each place is the result of the mixes that name it,
\* taken in the loop's order.
MixInto(samples, contribs) ==
    [i \in 1..Len(samples) |->
        MixAll(samples, SelectSeq(contribs, LAMBDA e : Target(samples, e.idx) = i))[i]]

\* a window that also takes the sample at its end
WindowInclusive(count) == [k \in 1..(count + 1) |-> k - 1]

\* The local indexes a loop over an event's window visits: range(count).
Window(count) == [k \in 1..count |-> k - 1]

\* The guard of every mixing loop: the buffer index is below num_samples.
InBuffer(idx, n) == idx < n

\* The loop over one oscillator component o of click number click, which
\* starts at buffer index start: for i in range(count): if idx < num_samples.
\* at is the click's start offset in microseconds.  Each contribution keeps
\* its event's start offset (at), the component's own delay in it (off) and
\* the event's duration (dur).  (The first component of
\* the single generators loops over range(min(count, num_samples)), which
\* visits the same indexes.)
OscContribs(o, click, comp, start, at, fv, n) ==
    LET first == start + ToSamples(o.start)
        w     == Window(ToSamples(o.dur))
        all   == [k \in 1..Len(w) |->
                    [click |-> click, comp |-> comp, idx |-> first + w[k],
                     val |-> OscValue(o, fv, w[k]),
                     at |-> at + o.start, off |-> o.start, dur |-> o.dur,
                     freq |-> EffFreq(o.freq, fv)]]
    IN SelectSeq(all, LAMBDA e : InBuffer(e.idx, n))

\* the generator's state after k draws
RECURSIVE RandAfter(_, _)
RandAfter(x, k) == IF k <= 0 THEN x ELSE RandNext(RandAfter(x, k - 1))

\* the j-th value drawn from state x on
Draw(x, j) == RandValue(RandAfter(x, j - 1))

\* the local indexes of a window that the guard lets through
Passing(w, first, n) == SelectSeq(w, LAMBDA k : InBuffer(first + k, n))

\* a noise loop that draws once and uses the value for every sample
NoiseLoopOneDraw(w, nz, click, first, at, n, g) ==
    LET p == Passing(w, first, n)
    IN  [contribs |-> [j \in 1..Len(p) |->
                        [click |-> click, comp |-> 4, idx |-> first + p[j],
                         val |-> NoiseValue(nz, Draw(g, 1), p[j]),
                         at |-> at + nz.start, off |-> nz.start, dur |-> nz.dur,
                         freq |-> 0]],
         draws |-> <<[what |-> "noise", click |-> click, r |-> Draw(g, 1)]>>,
         g |-> RandNext(g)]

\* The noise loop of a click: one random.random() for every index the guard
\* lets through.  g is the generator's state; the result holds the
\* contributions, the values drawn and the generator's state after the loop.
NoiseLoop(w, nz, click, first, at, n, g) ==
    LET p == Passing(w, first, n)
    IN  [contribs |-> [j \in 1..Len(p) |->
                        [click |-> click, comp |-> 4, idx |-> first + p[j],
                         val |-> NoiseValue(nz, Draw(g, j), p[j]),
                         at |-> at + nz.start, off |-> nz.start, dur |-> nz.dur,
                         freq |-> 0]],
         draws |-> [j \in 1..Len(p) |-> [what |-> "noise", click |-> click, r |-> Draw(g, j)]],
         g |-> RandAfter(g, Len(p))]

\* The sample loop of one click of generate_keyboard_click.
KeyLoop(w, cs, click, first, at, n, vol, fv, g) ==
    LET p == Passing(w, first, n)
    IN  [contribs |-> [j \in 1..Len(p) |->
                        [click |-> click, comp |-> 1, idx |-> first + p[j],
                         val |-> KeyValue(vol, fv, Draw(g, j), p[j], cs),
                         at |-> at, off |-> 0, dur |-> ClickPreset.duration,
                         freq |-> EffFreq(ClickPreset.freqs[1], fv)]],
         draws |-> [j \in 1..Len(p) |-> [what |-> "noise", click |-> click, r |-> Draw(g, j)]],
         g |-> RandAfter(g, Len(p))]

\* gap_variations: num_clicks - 1 draws, none when num_clicks <= 1
DrawGaps(k, P, g) ==
    [gaps  |-> [j \in 1..k |-> GapVariation(Draw(g, j), P)],
     draws |-> [j \in 1..k |-> [what |-> "gap", click |-> j - 1, r |-> Draw(g, j)]],
     g     |-> RandAfter(g, k)]

\* ------------------------------------------------------------- encode passes
\* sample * 32767 clamped to [-32767, 32767], then int(): the value is s/den
Quantize(s, den) ==
    IF s * 32767 >= 32767 * den THEN 32767
    ELSE IF s * 32767 <= -32767 * den THEN -32767
    ELSE Trunc(s * 32767, den)

\* the frames the write loop produces from a buffer
Frames(samples, den) == [i \in 1..Len(samples) |-> Quantize(samples[i], den)]

\* ------------------------------------------------------- the steps of a call
\* A call's record.  pc is the place in the generator's body; id numbers the
\* process's calls; seed0 and rng0 are the last seed and the generator's state
\* when the call was made; log holds every contribution mixed so far, draws
\* every value drawn.
NewCall(id, gen, n, vol, seed, g) ==
    [pc |-> "begin", id |-> id, gen |-> gen, n |-> n, vol |-> vol,
     samples |-> <<>>, den |-> AmpScale, num_samples |-> 0,
     gaps |-> <<>>, total |-> 0, pos |-> 0, click |-> 0, comp |-> 0,
     start |-> 0, fv |-> 1000, log |-> <<>>, draws |-> <<>>,
     seed0 |-> seed, rng0 |-> g, err |-> ""]

IdleCall == [NewCall(0, "thock", 1, 0, 0, 0) EXCEPT !.pc = "idle"]

\* a buffer sized for the clicks alone, the gaps left out of the total
AllotWithoutGaps(c, P, gaps) ==
    LET total == P.duration * c.n
    IN  [c EXCEPT !.gaps = gaps, !.total = total,
                  !.num_samples = ToSamples(total),
                  !.samples = Zeros(ToSamples(total)),
                  !.pc = IF c.n > 0 THEN "click" ELSE "normalize"]

\* total_duration = click_base_duration * num_clicks + sum(gap_variations);
\* num_samples = int(sample_rate * total_duration); samples = [0.0] * num_samples
Allot(c, P, gaps) ==
    LET total == P.duration * c.n + SeqSum(gaps)
    IN  [c EXCEPT !.gaps = gaps, !.total = total,
                  !.num_samples = ToSamples(total),
                  !.samples = Zeros(ToSamples(total)),
                  !.pc = IF c.n > 0 THEN "click" ELSE "normalize"]

\* From the call to the zeroed buffer.  The multi-click generators seed the
\* module's generator and draw the gaps first.
DoBegin(c, g) ==
    LET P == Preset(c.gen) IN
    IF c.gen \in Multis THEN
        LET d == DrawGaps(c.n - 1, P, RandSeed(P.seedMulti))
        IN [c |-> [Allot(c, P, d.gaps) EXCEPT !.draws = d.draws], g |-> d.g]
    ELSE IF c.gen \in Singles THEN
        [c |-> [c EXCEPT !.total = P.duration, !.num_samples = ToSamples(P.duration),
                         !.samples = Zeros(ToSamples(P.duration)),
                         !.comp = 1, !.pc = "osc"],
         g |-> g]
    ELSE
        LET total == P.duration * c.n + P.gap * (c.n - 1)
        IN [c |-> [c EXCEPT !.total = total, !.num_samples = ToSamples(total),
                            !.samples = Zeros(ToSamples(total)),
                            !.pc = IF c.n > 0 THEN "click" ELSE "open"],
            g |-> g]

\* The head of the loop over the clicks: the click's first sample and its one
\* frequency variation.
DoClick(c, g) ==
    LET P  == Preset(c.gen)
        at == IF c.gen = "click" THEN c.click * (P.duration + P.gap) ELSE c.pos
    IN [c |-> [c EXCEPT !.pos = at, !.start = ToSamples(at),
                        !.fv = FreqVariation(RandValue(g), P.freqJitter),
                        !.draws = Append(@, [what |-> "freq", click |-> c.click, r |-> RandValue(g)]),
                        !.comp = 1,
                        !.pc = IF c.gen = "click" THEN "kmix" ELSE "osc"],
        g |-> RandNext(g)]

\* a component's loop that draws a frequency variation of its own
DoOscRedraw(c, g) ==
    LET P  == Preset(c.gen)
        fv == IF c.comp = 1 THEN c.fv ELSE FreqVariation(RandValue(g), P.freqJitter)
        cs == OscContribs(P.osc[c.comp], c.click, c.comp, c.start, c.pos, fv, c.num_samples)
    IN [c |-> [c EXCEPT !.samples = MixInto(@, cs), !.log = @ \o cs,
                        !.comp = @ + 1,
                        !.pc = IF c.comp < Len(P.osc) THEN "osc"
                               ELSE IF c.gen \in Singles THEN "seednoise" ELSE "noise"],
        g |-> IF c.comp = 1 THEN g ELSE RandNext(g)]

\* One oscillator component's loop.
DoOsc(c, g) ==
    LET P  == Preset(c.gen)
        cs == OscContribs(P.osc[c.comp], c.click, c.comp, c.start, c.pos, c.fv, c.num_samples)
    IN [c |-> [c EXCEPT !.samples = MixInto(@, cs), !.log = @ \o cs,
                        !.comp = @ + 1,
                        !.pc = IF c.comp < Len(P.osc) THEN "osc"
                               ELSE IF c.gen \in Singles THEN "seednoise" ELSE "noise"],
        g |-> g]

\* random.seed(...) before the noise loop of the single generators
DoSeedNoise(c, g) ==
    [c |-> [c EXCEPT !.pc = "noise"], g |-> RandSeed(Preset(c.gen).seedSingle)]

\* a move to the next click by the nominal gap, not the one drawn
NextPositionNominal(c, P) ==
    c.pos + P.duration + (IF c.click < Len(c.gaps) THEN P.gap ELSE 0)

\* current_position += click_base_duration; if click_num < len(gap_variations):
\* current_position += gap_variations[click_num]
NextPosition(c, P) ==
    c.pos + P.duration + (IF c.click < Len(c.gaps) THEN c.gaps[c.click + 1] ELSE 0)

\* The noise loop, and for a click sequence the move to the next click.
DoNoise(c, g) ==
    LET P    == Preset(c.gen)
        l    == NoiseLoop(Window(ToSamples(P.noise.dur)), P.noise, c.click,
                          c.start + ToSamples(P.noise.start), c.pos, c.num_samples, g)
        next == NextPosition(c, P)
        mixed == [c EXCEPT !.samples = MixInto(@, l.contribs), !.log = @ \o l.contribs,
                           !.draws = @ \o l.draws]
    IN [c |-> IF c.gen \in Singles THEN [mixed EXCEPT !.pc = "normalize"]
              ELSE [mixed EXCEPT !.pos = next, !.click = @ + 1,
                                 !.pc = IF c.click + 1 < c.n THEN "click" ELSE "normalize"],
        g |-> l.g]

\* One click of generate_keyboard_click.
DoKeyMix(c, g) ==
    LET cs == ToSamples(ClickPreset.duration)
        l  == KeyLoop(Window(cs), cs, c.click, c.start, c.pos, c.num_samples,
                      c.vol, c.fv, g)
    IN [c |-> [c EXCEPT !.samples = MixInto(@, l.contribs), !.log = @ \o l.contribs,
                        !.draws = @ \o l.draws, !.click = @ + 1,
                        !.pc = IF c.click + 1 < c.n THEN "click" ELSE "open"],
        g |-> l.g]

\* the normalize pass without its guard: 1.0 / 0 raises ZeroDivisionError
NormalizedUnguarded(c) ==
    IF c.samples = <<>> THEN [c EXCEPT !.pc = "error", !.err = "ValueError"]
    ELSE IF MaxAbs(c.samples) = 0 THEN [c EXCEPT !.pc = "error", !.err = "ZeroDivisionError"]
    ELSE [c EXCEPT !.den = MaxAbs(c.samples), !.pc = "volume"]

\* max_sample = max(abs(s) ...); if max_sample > 0: samples * (1.0 / max_sample).
\* max() of an empty list raises ValueError.  The value s/den times
\* den/peak is s/peak: the numerators stay, the denominator becomes the peak.
Normalized(c) ==
    IF c.samples = <<>> THEN [c EXCEPT !.pc = "error", !.err = "ValueError"]
    ELSE IF MaxAbs(c.samples) > 0 THEN [c EXCEPT !.den = MaxAbs(c.samples), !.pc = "volume"]
    ELSE [c EXCEPT !.pc = "volume"]

\* samples = [s * volume for s in samples], volume in hundredths
VolumeApplied(c) ==
    [c EXCEPT !.samples = [i \in 1..Len(c.samples) |-> c.samples[i] * c.vol],
              !.den = @ * 100, !.pc = "open"]

\* The generator's body from a call's record up to the write loop, with
\* nothing else touching the random module: the steps above, in the order of
\* the source.
DoStep(c, g) ==
    IF c.pc = "begin" THEN DoBegin(c, g)
    ELSE IF c.pc = "click" THEN DoClick(c, g)
    ELSE IF c.pc = "osc" THEN DoOsc(c, g)
    ELSE IF c.pc = "seednoise" THEN DoSeedNoise(c, g)
    ELSE IF c.pc = "noise" THEN DoNoise(c, g)
    ELSE IF c.pc = "kmix" THEN DoKeyMix(c, g)
    ELSE IF c.pc = "normalize" THEN [c |-> Normalized(c), g |-> g]
    ELSE IF c.pc = "volume" THEN [c |-> VolumeApplied(c), g |-> g]
    ELSE [c |-> c, g |-> g]

RECURSIVE RunAlone(_, _)
RunAlone(c, g) ==
    IF c.pc \in {"open", "error"} THEN c
    ELSE RunAlone(DoStep(c, g).c, DoStep(c, g).g)

\* the frames a call of its own writes, made with the arguments and at the
\* generator state of call c
AloneFrames(c) ==
    LET r == RunAlone(NewCall(c.id, c.gen, c.n, c.vol, c.seed0, c.rng0), c.rng0)
    IN Frames(r.samples, r.den)

\* --------------------------------------------------------------------- state
\* volumes a request is made with, in hundredths (the parameter is unchecked)
Volumes == {-50, 0, 15, 100, 150}

Threads == {1, 2}

\* the requests: num_clicks is a parameter of the click sequences only
Requests ==
    [gen : Singles, n : {1}, vol : Volumes]
      \cup [gen : Multis \cup {"click"}, n : 0..MaxClicks, vol : Volumes]

NoFile == [exists |-> FALSE, frames |-> <<>>, open |-> FALSE, by |-> 0]
NoRun == [seed |-> -1, frames |-> <<>>]

VARIABLES
    req,      \* the request this process makes: generator, num_clicks, volume
    rng,      \* the state of the random module's generator, one per process
    seeded,   \* the argument of the last random.seed(), 0 before any
    call,     \* each thread's call of the generator
    file,     \* the destination file of each thread's calls
    ncalls,   \* calls started so far
    prev,     \* the seed in effect and the frames written by the last call that returned
    active    \* the threads that make calls

vars == <<req, rng, seeded, call, file, ncalls, prev, active>>

TypeOK ==
    /\ req \in Requests
    /\ rng \in 0..1023
    /\ ncalls \in 0..MaxCalls
    /\ active \subseteq Threads
    /\ \A t \in Threads : call[t].pc \in {"idle", "begin", "click", "osc", "seednoise",
                              "noise", "kmix", "normalize", "volume", "open", "write",
                              "done", "error", "failed"}

InitWith(threads) ==
    /\ req \in Requests
    /\ rng \in EntropyStates
    /\ seeded = 0
    /\ call = [t \in Threads |-> IdleCall]
    /\ file = [t \in Threads |-> NoFile]
    /\ ncalls = 0
    /\ prev = NoRun
    /\ active = threads

\* one process, one thread: the scripts as they are run
Init == InitWith({1})

\* ------------------------------------------------------------------- actions
\* main() of generate-sounds.py: random.seed(42) / random.seed(43) between calls
MainSeed(s) ==
    /\ \A t \in active : call[t].pc = "idle"
    /\ ncalls < MaxCalls
    /\ rng' = RandSeed(s)
    /\ seeded' = s
    /\ UNCHANGED <<req, call, file, ncalls, prev, active>>

\* a call of the generator with the request's arguments
Call(t) ==
    /\ call[t].pc = "idle"
    /\ ncalls < MaxCalls
    /\ call' = [call EXCEPT ![t] = NewCall(ncalls + 1, req.gen, req.n, req.vol, seeded, rng)]
    /\ ncalls' = ncalls + 1
    /\ UNCHANGED <<req, rng, seeded, file, prev, active>>

Begin(t) ==
    /\ call[t].pc = "begin"
    /\ call' = [call EXCEPT ![t] = DoBegin(call[t], rng).c]
    /\ rng' = DoBegin(call[t], rng).g
    /\ seeded' = IF call[t].gen \in Multis THEN Preset(call[t].gen).seedMulti ELSE seeded
    /\ UNCHANGED <<req, file, ncalls, prev, active>>

Click(t) ==
    /\ call[t].pc = "click"
    /\ call' = [call EXCEPT ![t] = DoClick(call[t], rng).c]
    /\ rng' = DoClick(call[t], rng).g
    /\ UNCHANGED <<req, seeded, file, ncalls, prev, active>>

Osc(t) ==
    /\ call[t].pc = "osc"
    /\ call' = [call EXCEPT ![t] = DoOsc(call[t], rng).c]
    /\ UNCHANGED <<req, rng, seeded, file, ncalls, prev, active>>

SeedNoise(t) ==
    /\ call[t].pc = "seednoise"
    /\ call' = [call EXCEPT ![t] = DoSeedNoise(call[t], rng).c]
    /\ rng' = DoSeedNoise(call[t], rng).g
    /\ seeded' = Preset(call[t].gen).seedSingle
    /\ UNCHANGED <<req, file, ncalls, prev, active>>

Noise(t) ==
    /\ call[t].pc = "noise"
    /\ call' = [call EXCEPT ![t] = DoNoise(call[t], rng).c]
    /\ rng' = DoNoise(call[t], rng).g
    /\ UNCHANGED <<req, seeded, file, ncalls, prev, active>>

KeyMix(t) ==
    /\ call[t].pc = "kmix"
    /\ call' = [call EXCEPT ![t] = DoKeyMix(call[t], rng).c]
    /\ rng' = DoKeyMix(call[t], rng).g
    /\ UNCHANGED <<req, seeded, file, ncalls, prev, active>>

Normalize(t) ==
    /\ call[t].pc = "normalize"
    /\ call' = [call EXCEPT ![t] = Normalized(call[t])]
    /\ UNCHANGED <<req, rng, seeded, file, ncalls, prev, active>>

ApplyVolume(t) ==
    /\ call[t].pc = "volume"
    /\ call' = [call EXCEPT ![t] = VolumeApplied(call[t])]
    /\ UNCHANGED <<req, rng, seeded, file, ncalls, prev, active>>

\* wave.open(filename, 'w'): the destination itself is created or truncated
OpenFile(t) ==
    /\ call[t].pc = "open"
    /\ file' = [file EXCEPT ![t] = [exists |-> TRUE, frames |-> <<>>, open |-> TRUE, by |-> call[t].id]]
    /\ call' = [call EXCEPT ![t].pc = "write"]
    /\ UNCHANGED <<req, rng, seeded, ncalls, prev, active>>

\* wave.open() raises: nothing of the destination is touched
OpenFail(t) ==
    /\ call[t].pc = "open"
    /\ call' = [call EXCEPT ![t].pc = "failed", ![t].err = "OSError"]
    /\ UNCHANGED <<req, rng, seeded, file, ncalls, prev, active>>

\* one turn of the write loop: writeframes(struct.pack('h', sample_int))
WriteFrame(t) ==
    /\ call[t].pc = "write"
    /\ Len(file[t].frames) < Len(call[t].samples)
    /\ file' = [file EXCEPT ![t].frames =
                   Append(@, Quantize(call[t].samples[Len(@) + 1], call[t].den))]
    /\ UNCHANGED <<req, rng, seeded, call, ncalls, prev, active>>

\* writeframes() raises: the with block closes the file as far as it was written
WriteFail(t) ==
    /\ call[t].pc = "write"
    /\ Len(file[t].frames) < Len(call[t].samples)
    /\ file' = [file EXCEPT ![t].open = FALSE]
    /\ call' = [call EXCEPT ![t].pc = "failed", ![t].err = "OSError"]
    /\ UNCHANGED <<req, rng, seeded, ncalls, prev, active>>

\* the end of the with block after the last frame
CloseFile(t) ==
    /\ call[t].pc = "write"
    /\ Len(file[t].frames) = Len(call[t].samples)
    /\ file' = [file EXCEPT ![t].open = FALSE]
    /\ call' = [call EXCEPT ![t].pc = "done"]
    /\ UNCHANGED <<req, rng, seeded, ncalls, prev, active>>

\* the seed a call's random stream starts from: its own, or the caller's
RunSeed(c) == IF c.gen \in Singles THEN Preset(c.gen).seedSingle
              ELSE IF c.gen \in Multis THEN Preset(c.gen).seedMulti
              ELSE c.seed0

\* the generator returns to its caller
Return(t) ==
    /\ call[t].pc = "done"
    /\ prev' = [seed |-> RunSeed(call[t]), frames |-> file[t].frames]
    /\ call' = [call EXCEPT ![t] = IdleCall]
    /\ UNCHANGED <<req, rng, seeded, file, ncalls, active>>

Next ==
    \/ \E t \in active : Call(t)
    \/ \E t \in active : Begin(t)
    \/ \E t \in active : Click(t)
    \/ \E t \in active : Osc(t)
    \/ \E t \in active : SeedNoise(t)
    \/ \E t \in active : Noise(t)
    \/ \E t \in active : KeyMix(t)
    \/ \E t \in active : Normalize(t)
    \/ \E t \in active : ApplyVolume(t)
    \/ \E t \in active : OpenFile(t)
    \/ \E t \in active : OpenFail(t)
    \/ \E t \in active : WriteFrame(t)
    \/ \E t \in active : WriteFail(t)
    \/ \E t \in active : CloseFile(t)
    \/ \E t \in active : Return(t)
    \/ \E s \in MainSeeds : MainSeed(s)

Spec == Init /\ [][Next]_vars

\* two threads of one process make the same call, each to its own file
InitPar == InitWith({1, 2}) /\ req.vol = 15 /\ req.n = 1

\* the threads' steps alone: no seeding by main(), no write failure
NextPar ==
    \/ \E t \in active : Call(t)
    \/ \E t \in active : Begin(t)
    \/ \E t \in active : Click(t)
    \/ \E t \in active : Osc(t)
    \/ \E t \in active : SeedNoise(t)
    \/ \E t \in active : Noise(t)
    \/ \E t \in active : KeyMix(t)
    \/ \E t \in active : Normalize(t)
    \/ \E t \in active : ApplyVolume(t)
    \/ \E t \in active : OpenFile(t)
    \/ \E t \in active : WriteFrame(t)
    \/ \E t \in active : CloseFile(t)
    \/ \E t \in active : Return(t)

SpecPar == InitPar /\ [][NextPar]_vars

\* The encode passes on their own: a buffer of any content is handed to the
\* normalize pass of a generator that has one.
BufValues == {-150, -1, 0, 50, 100}
Buffers == UNION {[1..k -> BufValues] : k \in 0..MaxBufLen}

\* the buffer b as what one event mixed into a zeroed buffer leaves
AsMixed(b, vol, g) ==
    [NewCall(1, "thock", 1, vol, 0, g) EXCEPT
        !.pc = "normalize", !.samples = b, !.num_samples = Len(b),
        !.total = ThockPreset.duration,
        !.log = [i \in 1..Len(b) |->
                    [click |-> 0, comp |-> 1, idx |-> i - 1, val |-> b[i],
                     at |-> 0, off |-> 0, dur |-> ThockPreset.duration, freq |-> 0]]]

InitEnc ==
    /\ req \in [gen : {"thock"}, n : {1}, vol : Volumes]
    /\ rng \in EntropyStates
    /\ seeded = 0
    /\ \E b \in Buffers :
          call = [t \in Threads |-> IF t = 1 THEN AsMixed(b, req.vol, rng) ELSE IdleCall]
    /\ file = [t \in Threads |-> NoFile]
    /\ ncalls = 1
    /\ prev = NoRun
    /\ active = {1}

NextEnc ==
    \/ \E t \in active : Normalize(t)
    \/ \E t \in active : ApplyVolume(t)
    \/ \E t \in active : OpenFile(t)
    \/ \E t \in active : OpenFail(t)
    \/ \E t \in active : WriteFrame(t)
    \/ \E t \in active : WriteFail(t)
    \/ \E t \in active : CloseFile(t)

EncSpec == InitEnc /\ [][NextEnc]_vars

\* The click loop on its own, over every gap the jitter can give: a call of a
\* click sequence that has made its buffer, the gaps of the multi-click
\* generators being any values of gap_duration + (random.random() - 0.5) * 0.02.
GapRange(P) == {GapVariation(r, P) : r \in 0..(RandRes - 1)}

LaidOut(gen, n, vol, g) ==
    IF gen \in Multis
    THEN {Allot(NewCall(1, gen, n, vol, 0, g), Preset(gen), gs) :
             gs \in [1..(n - 1) -> GapRange(Preset(gen))]}
    ELSE {DoBegin(NewCall(1, gen, n, vol, 0, g), g).c}

InitLay ==
    /\ req \in [gen : Multis \cup {"click"}, n : 1..MaxClicks, vol : {15, 100}]
    /\ rng \in EntropyStates
    /\ seeded = 0
    /\ \E c \in LaidOut(req.gen, req.n, req.vol, rng) :
          call = [t \in Threads |-> IF t = 1 THEN c ELSE IdleCall]
    /\ file = [t \in Threads |-> NoFile]
    /\ ncalls = 1
    /\ prev = NoRun
    /\ active = {1}

NextLay ==
    \/ \E t \in active : Click(t)
    \/ \E t \in active : Osc(t)
    \/ \E t \in active : Noise(t)
    \/ \E t \in active : KeyMix(t)

LaySpec == InitLay /\ [][NextLay]_vars

\* -------------------------------------------------------------------- claims
\* what the call has mixed at sample i, in the order it was mixed
HitsAt(c, i) == SelectSeq(c.log, LAMBDA e : e.idx = i - 1)

\* the sum of everything the call has mixed, sample by sample
Mixed(c) ==
    [i \in 1..Len(c.samples) |->
        LET h == HitsAt(c, i) IN SeqSum([k \in 1..Len(h) |-> h[k].val])]

Owns(t) == call[t].pc # "idle" /\ file[t].exists /\ file[t].by = call[t].id

\* C1: whenever a call with a volume in [0,1] has written a non-silent
\* buffer, the largest absolute frame is round(volume * 32767) within 1,
\* whichever generator mixed the buffer.
C1_PeakFollowsVolume ==
    \A t \in Threads :
        (call[t].pc = "done" /\ call[t].vol \in 0..100 /\ MaxAbs(Mixed(call[t])) > 0)
            => Abs(MaxAbs(file[t].frames) - Round(call[t].vol * 32767, 100)) <= 1

\* C2: a call with a valid request that ends with the same arguments and the
\* same seed as the call before it has written the same frames, whatever
\* calls or draws came before each.
C2_SameSeedSameFrames ==
    \A t \in Threads :
        (call[t].pc = "done" /\ prev # NoRun /\ RunSeed(call[t]) # 0
           /\ prev.seed = RunSeed(call[t])
           /\ call[t].vol \in 1..100 /\ call[t].n >= 1)
            => file[t].frames = prev.frames

\* C3: a call of a generator that seeds its own random stream, run
\* interleaved with another thread's call, has written the frames it writes
\* when it runs alone.
C3_InterleavedEqualsAlone ==
    \A t \in Threads :
        (call[t].pc = "done" /\ call[t].gen # "click")
            => file[t].frames = AloneFrames(call[t])

\* C4: after a write failure the destination holds no file of this call, or
\* the complete one.
C4_NoPartialFile ==
    \A t \in Threads :
        (call[t].pc = "failed" /\ Owns(t) /\ call[t].vol \in 0..100 /\ call[t].n >= 1)
            => file[t].frames = Frames(call[t].samples, call[t].den)

\* C5: a call with a volume outside [0,1] ends in InvalidParameter and
\* creates no file.
C5_VolumeRejected ==
    \A t \in Threads :
        (call[t].pc # "idle" /\ call[t].vol \notin 0..100 /\ call[t].n >= 1)
            => /\ ~Owns(t)
               /\ call[t].pc # "done"
               /\ (call[t].pc \in {"error", "failed"} => call[t].err = "InvalidParameter")

\* C6: a call whose total duration is zero or less ends in InvalidParameter,
\* before the buffer is normalized and before a file is created.
C6_EmptyRejected ==
    \A t \in Threads :
        (call[t].pc \notin {"idle", "begin"} /\ call[t].total <= 0 /\ call[t].vol \in 0..100)
            => /\ ~Owns(t)
               /\ call[t].pc \notin {"volume", "write", "done"}
               /\ (call[t].pc \in {"error", "failed"} => call[t].err = "InvalidParameter")

\* C7: a buffer whose samples are all zero passes the normalize pass
\* unchanged and without an error, and the file written from it has one zero
\* frame for every sample.
C7_SilentBufferWritesZeros ==
    \A t \in Threads :
        (call[t].pc # "idle" /\ call[t].samples # <<>> /\ MaxAbs(Mixed(call[t])) = 0)
            => /\ call[t].pc # "error"
               /\ call[t].pc = "volume" => call[t].den = AmpScale
               /\ Owns(t) => \A k \in 1..Len(file[t].frames) : file[t].frames[k] = 0
               /\ call[t].pc = "done" => Len(file[t].frames) = call[t].num_samples

C7_Witness ==
    \E t \in Threads :
        /\ call[t].pc = "done"
        /\ call[t].vol = 15
        /\ Len(call[t].samples) >= 2
        /\ MaxAbs(Mixed(call[t])) = 0
        /\ file[t].frames = Zeros(Len(call[t].samples))

\* the buffer an event leaves when it is mixed into a zeroed buffer alone
Solo(c, ev) ==
    [i \in 1..Len(c.samples) |->
        LET h == SelectSeq(HitsAt(c, i), LAMBDA e : <<e.click, e.comp>> = ev)
        IN  SeqSum([k \in 1..Len(h) |-> h[k].val])]

\* the events covering sample i
EventsAt(c, i) ==
    LET h == HitsAt(c, i) IN {<<h[k].click, h[k].comp>> : k \in 1..Len(h)}

RECURSIVE SumOfSolos(_, _, _)
SumOfSolos(c, evs, i) ==
    IF evs = {} THEN 0
    ELSE LET ev == CHOOSE x \in evs : TRUE
         IN  Solo(c, ev)[i] + SumOfSolos(c, evs \ {ev}, i)

\* the call is mixing, or has mixed every event and has not scaled the buffer
Unscaled(c) ==
    \/ c.pc \in {"click", "osc", "seednoise", "noise", "kmix", "normalize", "volume"}
    \/ c.gen = "click" /\ c.pc = "open"

\* the events that leave something other than zero at sample i
Covering(c, i) == {ev \in EventsAt(c, i) : Solo(c, ev)[i] # 0}

\* C9: before any scaling, every sample of the buffer is the sum, over the
\* events covering it, of what each event leaves at that sample when it is
\* mixed alone into a zeroed buffer; events are added, none replaces another.
C9_MixIsAdditive ==
    \A t \in Threads :
        (call[t].pc # "idle" /\ Unscaled(call[t]))
            => \A i \in 1..Len(call[t].samples) :
                  call[t].samples[i] = SumOfSolos(call[t], EventsAt(call[t], i), i)

C9_Witness ==
    \E t \in Threads :
        /\ call[t].pc = "normalize"
        /\ \E i \in 1..Len(call[t].samples) : Cardinality(Covering(call[t], i)) >= 2

\* C8 as stated: every sample an event writes is inside the buffer and at a
\* time t = i / sampleRate - startOffset with 0 <= t < duration.
C8_WindowFromOffset ==
    \A t \in Threads : \A k \in 1..Len(call[t].log) :
        LET e == call[t].log[k]
        IN  call[t].vol \in 0..100 =>
            /\ e.idx >= 0 /\ e.idx < call[t].num_samples
            /\ e.idx * 1000000 >= e.at * SampleRate
            /\ e.idx * 1000000 < (e.at + e.dur) * SampleRate

\* C8: an event writes whole samples counted from its start sample, which is
\* the click's start and the component's delay each cut down to a whole number
\* of samples: the k-th sample it writes has 0 <= k / sampleRate < duration,
\* lies inside the buffer and less than two sample periods before the event's
\* start offset; samples no event writes stay zero.
C8_WindowFromStartSample ==
    \A t \in Threads :
        /\ \A j \in 1..Len(call[t].log) :
              LET e == call[t].log[j]
                  k == e.idx - (ToSamples(e.at - e.off) + ToSamples(e.off))
              IN  /\ e.idx >= 0 /\ e.idx < call[t].num_samples
                  /\ k >= 0
                  /\ k * 1000000 < e.dur * SampleRate
                  /\ (e.idx + 2) * 1000000 > e.at * SampleRate
                  /\ e.idx * 1000000 < (e.at + e.dur) * SampleRate
        /\ (call[t].pc # "idle" /\ Unscaled(call[t]))
              => \A i \in 1..Len(call[t].samples) :
                    (\A j \in 1..Len(call[t].log) : call[t].log[j].idx # i - 1)
                        => call[t].samples[i] = 0

C8_Witness ==
    \E t \in Threads :
        /\ call[t].pc = "normalize"
        /\ \E j \in 1..Len(call[t].log) :
              /\ call[t].log[j].idx * 1000000 < call[t].log[j].at * SampleRate
              /\ call[t].log[j].val # 0

\* clamp to [-1, 1], scale by 32767, round to nearest
ClampRound(s, den) ==
    LET c == IF s > den THEN den ELSE IF s < -den THEN -den ELSE s
    IN  Round(c * 32767, den)

Written(t) == Owns(t) /\ call[t].pc \in {"write", "done", "failed"}

\* C10: every frame written is round(clamp(s, -1, 1) * 32767), rounded to the
\* nearest integer, and lies in [-32767, 32767].
C10_FramesRounded ==
    \A t \in Threads :
        Written(t) => \A k \in 1..Len(file[t].frames) :
            /\ file[t].frames[k] = ClampRound(call[t].samples[k], call[t].den)
            /\ file[t].frames[k] \in -32767..32767

\* the call has made its buffer
Allocated(c) == c.pc \notin {"idle", "begin"}

\* C11 as stated, for a valid call of generate_keyboard_click: the buffer has
\* ceil(total duration * sample rate) samples, products that are not whole
\* numbers rounded up, and the file written has that many frames.
C11_LengthIsCeiling ==
    \A t \in Threads :
        (Allocated(call[t]) /\ call[t].gen = "click"
           /\ call[t].n >= 1 /\ call[t].vol \in 0..100) =>
            LET n == Len(call[t].samples)
            IN  /\ n * 1000000 >= call[t].total * SampleRate
                /\ (n - 1) * 1000000 < call[t].total * SampleRate
                /\ call[t].pc = "done" => Len(file[t].frames) = n

\* C11: the buffer has int(total duration * sample rate) samples, the
\* product cut down to a whole number (none when it is not positive); they
\* are all zero until the first event is mixed, and a file written to its end
\* has one frame for every buffer sample, in the buffer's order.
C11_LengthIsTruncated ==
    \A t \in Threads :
        Allocated(call[t]) =>
            LET n == Len(call[t].samples)
            IN  /\ call[t].total > 0 =>
                     /\ n * 1000000 <= call[t].total * SampleRate
                     /\ (n + 1) * 1000000 > call[t].total * SampleRate
                /\ call[t].total <= 0 => n = 0
                /\ call[t].log = <<>> => \A i \in 1..n : call[t].samples[i] = 0
                /\ Owns(t) =>
                     /\ Len(file[t].frames) <= n
                     /\ \A i \in 1..Len(file[t].frames) :
                           (file[t].frames[i] = 0) = (call[t].samples[i] = 0)
                /\ call[t].pc = "done" => Len(file[t].frames) = n

C11_Witness ==
    \E t \in Threads :
        /\ call[t].pc = "done"
        /\ call[t].gen = "click" /\ call[t].n = 1 /\ call[t].vol = 100
        /\ Len(file[t].frames) = Len(call[t].samples)
        /\ Len(call[t].samples) * 1000000 < call[t].total * SampleRate

\* the draws of one kind a call has made, in order
DrawsOf(c, what) == SelectSeq(c.draws, LAMBDA d : d.what = what)

\* the start offset of click k: the template and the gap of every click before
OffsetOf(c, k) ==
    SeqSum([j \in 1..k |-> Preset(c.gen).duration + c.gaps[j]])

\* C12: in a click sequence of N clicks, click 0 starts at offset 0 and click
\* k at the sum over j < k of template duration + gap_j; gap_j is the nominal
\* gap plus a jitter drawn once, the j-th value of the stream seeded by the
\* call; the N-1 gaps that place the clicks are the ones in the total duration.
C12_ClickOffsets ==
    \A t \in Threads :
        (Allocated(call[t]) /\ call[t].gen \in Multis) =>
            LET c == call[t]
                P == Preset(c.gen)
                d == DrawsOf(c, "gap")
            IN  /\ Len(c.gaps) = (IF c.n >= 1 THEN c.n - 1 ELSE 0)
                /\ Len(d) = Len(c.gaps)
                /\ \A j \in 1..Len(c.gaps) :
                      /\ c.draws[j] = d[j]
                      /\ d[j].r = Draw(RandSeed(P.seedMulti), j)
                      /\ c.gaps[j] * 2 * RandRes
                            - (P.gap * 2 * RandRes + (2 * d[j].r - RandRes) * P.gapJitter)
                           \in -(2 * RandRes - 1)..(2 * RandRes - 1)
                /\ c.total = P.duration * c.n + SeqSum(c.gaps)
                /\ \A k \in 1..Len(c.log) :
                      /\ c.log[k].click \in 0..(c.n - 1)
                      /\ c.log[k].at - c.log[k].off = OffsetOf(c, c.log[k].click)
                /\ c.pc \in {"osc", "noise"} => c.pos = OffsetOf(c, c.click)

C12_Witness ==
    \E t \in Threads :
        /\ call[t].pc = "done" /\ call[t].gen \in Multis /\ call[t].n >= 2
        /\ call[t].gaps[1] # Preset(call[t].gen).gap
        /\ \E k \in 1..Len(call[t].log) :
              /\ call[t].log[k].click = 1
              /\ call[t].log[k].val # 0
              /\ call[t].log[k].at - call[t].log[k].off
                    = Preset(call[t].gen).duration + call[t].gaps[1]

\* the clicks whose loop body the call has entered
ClicksStarted(c) == IF c.pc \in {"osc", "noise", "kmix"} THEN c.click + 1 ELSE c.click

\* the frequency a component has before the click's variation
BaseFreq(c, comp) ==
    IF c.gen = "click" THEN ClickPreset.freqs[1] ELSE Preset(c.gen).osc[comp].freq

\* C13: for each click of a sequence exactly one frequency variation is drawn,
\* and every oscillator component of that click, and of no other click, has
\* its frequency (and with it every harmonic, a multiple of it) multiplied by
\* the factor of that one draw; no component makes a draw of its own.
C13_OneVariationPerClick ==
    \A t \in Threads :
        (Allocated(call[t]) /\ call[t].gen \notin Singles) =>
            LET c == call[t]
                P == Preset(c.gen)
                d == DrawsOf(c, "freq")
            IN  /\ Len(d) = ClicksStarted(c)
                /\ \A k \in 1..Len(d) : d[k].click = k - 1
                /\ c.pc \in {"osc", "noise", "kmix"}
                      => c.fv = FreqVariation(d[c.click + 1].r, P.freqJitter)
                /\ \A k \in 1..Len(c.log) :
                      c.log[k].comp # 4 =>
                          c.log[k].freq
                            = EffFreq(BaseFreq(c, c.log[k].comp),
                                      FreqVariation(d[c.log[k].click + 1].r, P.freqJitter))

C13_Witness ==
    \E t \in Threads :
        /\ call[t].pc = "done" /\ call[t].gen \in Multis /\ call[t].n = 2
        /\ LET d == DrawsOf(call[t], "freq")
           IN  /\ Len(d) = 2
               /\ d[1].r # d[2].r
               /\ \A comp \in 1..3 : \A k \in 0..1 :
                     \E j \in 1..Len(call[t].log) :
                        call[t].log[j].comp = comp /\ call[t].log[j].click = k

\* the place of a draw in the order gaps, then click by click the frequency
\* variation and the noise
DrawRank(d) ==
    IF d.what = "gap" THEN 0
    ELSE 2 * d.click + (IF d.what = "freq" THEN 1 ELSE 2)

\* the noise samples of click k that fall inside the buffer
NoiseInside(c, k) ==
    LET cnt   == (Preset(c.gen).noise.dur * SampleRate) \div 1000000
        first == (OffsetOf(c, k) * SampleRate) \div 1000000
        room  == c.num_samples - first
    IN  IF room <= 0 THEN 0 ELSE IF room < cnt THEN room ELSE cnt

\* C14: a multi-click generator consumes the stream it seeded in a fixed
\* order: the N-1 gap jitters, then for click 0, 1, ... in turn one frequency
\* jitter and that click's noise values; a noise value is drawn for a sample
\* index inside the buffer and for no other, so a click makes as many noise
\* draws as it has noise samples inside the buffer.
C14_DrawOrder ==
    \A t \in Threads :
        (Allocated(call[t]) /\ call[t].gen \in Multis) =>
            LET c  == call[t]
                P  == Preset(c.gen)
                nz == DrawsOf(c, "noise")
            IN  /\ \A j \in 1..Len(c.draws) :
                      /\ c.draws[j].r = Draw(RandSeed(P.seedMulti), j)
                      /\ j > 1 => DrawRank(c.draws[j - 1]) <= DrawRank(c.draws[j])
                /\ Len(DrawsOf(c, "gap")) = Len(c.gaps)
                /\ \A k \in 0..(c.click - 1) :
                      /\ Cardinality({j \in 1..Len(c.draws) :
                            c.draws[j].what = "freq" /\ c.draws[j].click = k}) = 1
                      /\ Cardinality({j \in 1..Len(c.draws) :
                            c.draws[j].what = "noise" /\ c.draws[j].click = k})
                           = NoiseInside(c, k)
                /\ \A m \in 0..(ToSamples(P.noise.dur) + 1) :
                      LET l == NoiseLoop(Window(ToSamples(P.noise.dur)), P.noise, 0, 0, 0, m, rng)
                          k == IF m < ToSamples(P.noise.dur) THEN m ELSE ToSamples(P.noise.dur)
                      IN  /\ Len(l.draws) = k
                          /\ Len(l.contribs) = k
                          /\ l.g = RandAfter(rng, k)

C14_Witness ==
    \E t \in Threads :
        /\ call[t].pc = "done" /\ call[t].gen \in Multis /\ call[t].n = 2
        /\ LET d == call[t].draws
           IN  /\ d[1].what = "gap" /\ d[2].what = "freq" /\ d[3].what = "noise"
               /\ \E j \in 4..Len(d) : d[j].what = "freq" /\ d[j].click = 1
               /\ d[Len(d)].what = "noise" /\ d[Len(d)].click = 1

\* the first sample of click k, from the offsets of the clicks before it
ClickFirst(c, k) ==
    IF c.gen \in Multis THEN (OffsetOf(c, k) * SampleRate) \div 1000000
    ELSE (k * (ClickPreset.duration + ClickPreset.gap) * SampleRate) \div 1000000

\* the components a click of this generator mixes
CompsOf(c) == IF c.gen \in Multis THEN 1..4 ELSE {1}

\* what the loops of component comp of click k have left in the log
EntriesOf(c, k, comp) == SelectSeq(c.log, LAMBDA e : e.click = k /\ e.comp = comp)

\* C15: for every number of clicks from 1 up and every gap the jitter can
\* give, every component of every click leaves one contribution for each sample
\* of its window (the in-buffer guard drops none), every contribution lands
\* inside the buffer, and every sample a click writes lies at or after that
\* click's first sample and before the first sample of the click after it.
C15_ClicksFitAndDoNotOverlap ==
    \A t \in Threads :
        LET c == call[t]
        IN  (Allocated(c) /\ c.gen \notin Singles /\ c.n >= 1 /\ Unscaled(c)) =>
              /\ \A k \in 0..(c.click - 1) : \A comp \in CompsOf(c) :
                    LET es == EntriesOf(c, k, comp)
                    IN  /\ Len(es) >= 1
                        /\ Len(es) = (es[1].dur * SampleRate) \div 1000000
              /\ \A j \in 1..Len(c.log) :
                    LET e == c.log[j]
                    IN  /\ e.idx >= ClickFirst(c, e.click)
                        /\ e.idx < Len(c.samples)
                        /\ e.click + 1 < c.n => e.idx < ClickFirst(c, e.click + 1)
              /\ \A k \in 0..(c.n - 2) : ClickFirst(c, k) < ClickFirst(c, k + 1)

C15_Witness ==
    \E t \in Threads :
        LET c == call[t]
        IN  /\ c.gen \in Multis /\ c.n = 2 /\ c.pc = "normalize"
            /\ \A g \in GapRange(Preset(c.gen)) : c.gaps[1] <= g
            /\ \A k \in 0..1 : \A comp \in 1..4 : Len(EntriesOf(c, k, comp)) >= 1
            /\ \E j \in 1..Len(c.log) : c.log[j].click = 1 /\ c.log[j].val # 0

====
